---- MODULE Spec2Model ----
(***************************************************************************)
(* Model of devtoolkit/src/python-runtime/sandbox_wrapper.py: the four     *)
(* guards (RestrictedImportHook, RestrictedFileSystem, RestrictedNetwork,  *)
(* RestrictedEnvironment), apply_security_restrictions,                    *)
(* run_sandboxed_script and main.                                          *)
(*                                                                         *)
(* Python strings are sequences of one-character strings, so that split,   *)
(* startswith and abspath are computed as the code computes them.          *)
(* A process-wide interception point holds 0 (the original function) or    *)
(* n > 0 (the bound method of the n-th constructed guard set).             *)
(***************************************************************************)
EXTENDS Integers, Sequences, FiniteSets, TLC

\* ------------------------------------------------------------------------
\* Strings
\* ------------------------------------------------------------------------

\* str.startswith(prefix)
StartsWith(s, prefix) ==
    /\ Len(prefix) <= Len(s)
    /\ SubSeq(s, 1, Len(prefix)) = prefix

\* index of the first occurrence of character c in s, or 0
RECURSIVE FindFrom(_, _, _)
FindFrom(s, c, i) ==
    IF i > Len(s) THEN 0
    ELSE IF s[i] = c THEN i
    ELSE FindFrom(s, c, i + 1)

\* s.split(c) as a sequence of strings
RECURSIVE Split(_, _)
Split(s, c) ==
    LET k == FindFrom(s, c, 1)
    IN  IF k = 0 THEN << s >>
        ELSE << SubSeq(s, 1, k - 1) >> \o Split(SubSeq(s, k + 1, Len(s)), c)

\* c.join(parts)
RECURSIVE Join(_, _)
Join(parts, c) ==
    IF parts = << >> THEN << >>
    ELSE IF Len(parts) = 1 THEN parts[1]
    ELSE parts[1] \o << c >> \o Join(Tail(parts), c)

\* x in list
InList(x, list) == \E i \in 1..Len(list) : list[i] = x

\* ------------------------------------------------------------------------
\* Module names used by the guards and by sandboxed code
\* ------------------------------------------------------------------------
M_socket == << "s","o","c","k","e","t" >>
M_socketserver == << "s","o","c","k","e","t","s","e","r","v","e","r" >>
M_subprocess == << "s","u","b","p","r","o","c","e","s","s" >>
M_pty == << "p","t","y" >>
M_os == << "o","s" >>
M_os_path == << "o","s",".","p","a","t","h" >>
M_os_system == << "o","s",".","s","y","s","t","e","m" >>
M_shutil_rmtree == << "s","h","u","t","i","l",".","r","m","t","r","e","e" >>
M_smtplib == << "s","m","t","p","l","i","b" >>
M_ftplib == << "f","t","p","l","i","b" >>
M_sys == << "s","y","s" >>
M_typing == << "t","y","p","i","n","g" >>
M_json == << "j","s","o","n" >>
M_json_decoder == << "j","s","o","n",".","d","e","c","o","d","e","r" >>
M_datetime == << "d","a","t","e","t","i","m","e" >>
M_math == << "m","a","t","h" >>
M_urllib_request == << "u","r","l","l","i","b",".","r","e","q","u","e","s","t" >>
M_urllib == << "u","r","l","l","i","b" >>
M_http_client == << "h","t","t","p",".","c","l","i","e","n","t" >>
M_http == << "h","t","t","p" >>
M_urllib_parse == << "u","r","l","l","i","b",".","p","a","r","s","e" >>

\* ------------------------------------------------------------------------
\* RestrictedImportHook.secure_import
\* ------------------------------------------------------------------------

\* the list built at each call of secure_import
dangerous_modules ==
    << M_subprocess, M_os_system, M_shutil_rmtree, M_pty,
       M_socket, M_smtplib, M_ftplib >>

\* the first check of secure_import: neither the first dotted segment nor the
\* name is in allowed_imports
NotInAllowList(name, allowed_imports) ==
    LET base_module == Split(name, ".")[1]
    IN  /\ ~ InList(base_module, allowed_imports)
        /\ ~ InList(name, allowed_imports)

\* the second check: any(name.startswith(dangerous) for dangerous in ...)
IsDangerous(name) ==
    \E i \in 1..Len(dangerous_modules) : StartsWith(name, dangerous_modules[i])

\* secure_import if it made the allow-list check only
SecureImportCheck_AllowListOnly(name, allowed_imports) ==
    IF NotInAllowList(name, allowed_imports) THEN "not_allowed"
    ELSE "pass"

\* The outcome of secure_import(name) up to the call of original_import:
\* "not_allowed" and "dangerous" are the two raise statements, "pass" is the
\* call of self.original_import.
SecureImportCheck(name, allowed_imports) ==
    IF NotInAllowList(name, allowed_imports) THEN "not_allowed"
    ELSE IF IsDangerous(name) THEN "dangerous"
    ELSE "pass"

\* ------------------------------------------------------------------------
\* Paths and the files of the host
\* ------------------------------------------------------------------------
P_data == << "/","d","a","t","a" >>
P_data_x == << "/","d","a","t","a","/","x",".","t","x","t" >>
P_data_s == << "/","d","a","t","a","/","s",".","p","y" >>
P_app == << "/","a","p","p" >>
P_app_s == << "/","a","p","p","/","s",".","p","y" >>
P_app_missing == << "/","a","p","p","/","n","o",".","p","y" >>
P_app_bad == << "/","a","p","p","/","b","a","d",".","p","y" >>
P_app_locked == << "/","a","p","p","/","l","o","c","k","e","d",".","p","y" >>
P_database == << "/","d","a","t","a","b","a","s","e" >>
P_database_y == << "/","d","a","t","a","b","a","s","e","/","y" >>
P_data_up == << "/","d","a","t","a","/",".",".","/","a","p","p","/","s",".","p","y" >>
P_rel_s == << "s",".","p","y" >>
Mode_r == << "r" >>
Mode_w == << "w" >>

\* the process's working directory (os.getcwd(), read by os.path.abspath)
Cwd == P_app

\* files that exist on the host (os.path.exists)
ExistingFiles == { P_data_x, P_data_s, P_app_s, P_app_bad, P_app_locked }
\* files the process has no permission to read
UnreadableFiles == { P_app_locked }
\* script files whose source does not compile
NonCompiling == { P_app_bad }

\* the component loop of posixpath.normpath
RECURSIVE NormComps(_, _, _)
NormComps(comps, new_comps, initial_slashes) ==
    IF comps = << >> THEN new_comps
    ELSE
        LET comp == Head(comps)
            rest == Tail(comps)
        IN  IF comp = << >> \/ comp = << "." >>
            THEN NormComps(rest, new_comps, initial_slashes)
            ELSE IF \/ comp # << ".", "." >>
                    \/ (initial_slashes = 0 /\ new_comps = << >>)
                    \/ (new_comps # << >>
                        /\ new_comps[Len(new_comps)] = << ".", "." >>)
            THEN NormComps(rest, Append(new_comps, comp), initial_slashes)
            ELSE IF new_comps # << >>
            THEN NormComps(rest, SubSeq(new_comps, 1, Len(new_comps) - 1),
                           initial_slashes)
            ELSE NormComps(rest, new_comps, initial_slashes)

\* posixpath.normpath
NormPath(path) ==
    IF path = << >> THEN << "." >>
    ELSE
        LET initial_slashes ==
                IF ~ StartsWith(path, << "/" >>) THEN 0
                ELSE IF StartsWith(path, << "/", "/" >>)
                        /\ ~ StartsWith(path, << "/", "/", "/" >>) THEN 2
                ELSE 1
            joined == Join(NormComps(Split(path, "/"), << >>, initial_slashes), "/")
            out == IF initial_slashes = 2 THEN << "/", "/" >> \o joined
                   ELSE IF initial_slashes = 1 THEN << "/" >> \o joined
                   ELSE joined
        IN  IF out = << >> THEN << "." >> ELSE out

\* os.path.abspath
AbsPath(path) ==
    IF StartsWith(path, << "/" >>) THEN NormPath(path)
    ELSE NormPath(Cwd \o << "/" >> \o path)

\* [os.path.abspath(p) for p in paths]
AbsPaths(paths) == [i \in 1..Len(paths) |-> AbsPath(paths[i])]

\* ------------------------------------------------------------------------
\* RestrictedFileSystem: the checks
\* ------------------------------------------------------------------------

\* for allowed_path in paths: if filepath.startswith(allowed_path): return True
AnyPrefix(filepath, paths) ==
    \E i \in 1..Len(paths) : StartsWith(filepath, paths[i])

\* RestrictedFileSystem.is_path_allowed
is_path_allowed(g, filepath, write_mode) ==
    LET abs == AbsPath(filepath)
    IN  IF write_mode THEN AnyPrefix(abs, g.write_paths)
        ELSE AnyPrefix(abs, g.read_paths)

\* any(char in mode for char in 'wax+')
IsWriteMode(mode) ==
    \E i \in 1..Len(mode) : mode[i] \in { "w", "a", "x", "+" }

\* ------------------------------------------------------------------------
\* RestrictedNetwork: the checks. A host is a string and a port the decimal
\* string of its number.
\* ------------------------------------------------------------------------

\* RestrictedNetwork.is_host_allowed
is_host_allowed(g, host) ==
    IF InList("*", g.allowed_hosts) THEN TRUE
    ELSE IF g.allow_localhost /\ (host = "localhost" \/ host = "127.0.0.1")
    THEN TRUE
    ELSE InList(host, g.allowed_hosts)

\* RestrictedNetwork.is_port_allowed
is_port_allowed(g, port) ==
    IF g.allowed_ports = << >> THEN FALSE
    ELSE InList(port, g.allowed_ports)

\* ------------------------------------------------------------------------
\* Security profiles
\* ------------------------------------------------------------------------

\* dict.get(key, default)
Get(d, key, default) == IF key \in DOMAIN d THEN d[key] ELSE default

\* a default profile that grants deletion and the environment
DEFAULT_SECURITY_PROFILE_Permissive ==
    [ allowed_imports |-> << M_os_path, M_sys, M_typing, M_json, M_datetime, M_math >>,
      filesystem |-> [ read_paths |-> << >>, write_paths |-> << >>,
                       allow_delete |-> TRUE ],
      network |-> [ allowed_hosts |-> << >>, allowed_ports |-> << >>,
                    allow_localhost |-> FALSE ],
      system |-> [ allowed_calls |-> << >>, allow_subprocesses |-> FALSE ],
      environment |-> [ allow_access |-> TRUE ] ]

DEFAULT_SECURITY_PROFILE ==
    [ allowed_imports |-> << M_os_path, M_sys, M_typing, M_json, M_datetime, M_math >>,
      filesystem |-> [ read_paths |-> << >>, write_paths |-> << >>,
                       allow_delete |-> FALSE ],
      network |-> [ allowed_hosts |-> << >>, allowed_ports |-> << >>,
                    allow_localhost |-> FALSE ],
      system |-> [ allowed_calls |-> << >>, allow_subprocesses |-> FALSE ],
      environment |-> [ allow_access |-> FALSE ] ]

\* ------------------------------------------------------------------------
\* Exceptions
\* ------------------------------------------------------------------------

\* An exception in flight: its class, the resource its message names (a
\* string, or << >>) and the class of the exception that was being handled
\* when it was raised (__context__).
Exc(type, res) == [ type |-> type, res |-> res, ctx |-> "none" ]
NoExc == Exc("none", << >>)
Raised(e) == e.type # "none"

\* classes that derive from Exception (SystemExit derives from BaseException)
IsException(e) == e.type \notin { "none", "SystemExit" }

\* raising e2 while e1 is being handled or is propagating
WithContext(e2, e1) == [ e2 EXCEPT !.ctx = e1.type ]

\* ------------------------------------------------------------------------
\* The ambient, process-wide state and the guard objects
\* ------------------------------------------------------------------------

\* attribute never assigned
Unset == -1

\* the functions the guards replace
Points == { "import", "open", "path_open", "remove", "unlink",
            "socket", "urlopen", "http_init" }

\* every interception point holds the function the interpreter starts with
OriginalAmbient == [ p \in Points |-> 0 ]

\* os.environ of the host, as a set of << key, value >>
HostEnviron == { << "PATH", "/bin" >>, << "HOME", "/root" >>,
                 << "API_KEY", "secret" >>, << "LANG", "C" >> }

\* A world is what guard code reads and writes: amb (the interception
\* points), environ (os.environ) and G (the guard sets constructed so far,
\* G[n] holding the attributes of the four guards of the n-th set).
World(a, e, g) == [ amb |-> a, environ |-> e, G |-> g ]

\* the result of a call: the world after it and the exception it raised
Ret(w, e) == [ w |-> w, exc |-> e ]

\* apply_security_restrictions: the four constructors
apply_security_restrictions(security_profile, a) ==
    LET fs_profile == Get(security_profile, "filesystem",
                          DEFAULT_SECURITY_PROFILE.filesystem)
        network_profile == Get(security_profile, "network",
                               DEFAULT_SECURITY_PROFILE.network)
        env_profile == Get(security_profile, "environment",
                           DEFAULT_SECURITY_PROFILE.environment)
    IN  [ \* RestrictedImportHook.__init__
          allowed_imports |-> Get(security_profile, "allowed_imports",
                                  DEFAULT_SECURITY_PROFILE.allowed_imports),
          original_import |-> a["import"],
          \* RestrictedFileSystem.__init__
          read_paths |-> AbsPaths(Get(fs_profile, "read_paths", << >>)),
          write_paths |-> AbsPaths(Get(fs_profile, "write_paths", << >>)),
          allow_delete |-> Get(fs_profile, "allow_delete", FALSE),
          original_open |-> a["open"],
          \* RestrictedNetwork.__init__
          allowed_hosts |-> Get(network_profile, "allowed_hosts", << >>),
          allowed_ports |-> Get(network_profile, "allowed_ports", << >>),
          allow_localhost |-> Get(network_profile, "allow_localhost", FALSE),
          original_socket |-> Unset,
          original_urlopen |-> Unset,
          original_http_connect |-> Unset,
          \* RestrictedEnvironment.__init__
          allow_access |-> Get(env_profile, "allow_access", FALSE),
          allowed_env_vars |-> { "PATH", "PYTHONPATH", "LANG",
                                 "PYTEST_CURRENT_TEST", "PYTHONIOENCODING" },
          has_original_environ |-> FALSE,
          original_environ |-> { } ]

\* the order of the list apply_security_restrictions returns
GuardOrder == << "import", "filesystem", "network", "environment" >>

\* reversed(restrictions)
Reverse(s) == [ i \in 1..Len(s) |-> s[Len(s) + 1 - i] ]

\* ------------------------------------------------------------------------
\* Calls through the interception points
\* ------------------------------------------------------------------------

\* builtins.__import__(name) when the interception point holds fn: the
\* interpreter's importer (0) imports the standard modules named here;
\* secure_import of guard set fn raises or calls the importer it captured.
RECURSIVE ImportVia(_, _, _)
ImportVia(fn, name, G) ==
    IF fn = 0 THEN NoExc
    ELSE IF SecureImportCheck(name, G[fn].allowed_imports) # "pass"
    THEN Exc("SecurityError", name)
    ELSE ImportVia(G[fn].original_import, name, G)

\* the functions that call invokes, in order: secure_import of a guard set
\* and, only after its checks pass, the importer it captured
RECURSIVE ImportChain(_, _, _)
ImportChain(fn, name, G) ==
    IF fn = 0 THEN << 0 >>
    ELSE IF SecureImportCheck(name, G[fn].allowed_imports) # "pass"
    THEN << fn >>
    ELSE << fn >> \o ImportChain(G[fn].original_import, name, G)

\* builtins.__import__(name) for a module that is not yet in sys.modules,
\* when the interception point holds fn and builtins.__import__ holds top:
\* secure_import checks the name and calls the importer it captured; the
\* interpreter's importer (0) runs the module's body, whose own import
\* statements (deps, in order) go through builtins.__import__ again, and the
\* first of them that raises ends the load.
RECURSIVE FirstImportVia(_, _, _, _, _)
FirstImportVia(fn, top, name, deps, G) ==
    IF fn = 0
    THEN LET failing == { k \in 1..Len(deps) :
                            Raised(ImportVia(top, deps[k], G)) }
         IN  IF failing = { } THEN NoExc
             ELSE ImportVia(top,
                            deps[CHOOSE k \in failing :
                                    \A j \in failing : k <= j], G)
    ELSE IF SecureImportCheck(name, G[fn].allowed_imports) # "pass"
    THEN Exc("SecurityError", name)
    ELSE FirstImportVia(G[fn].original_import, top, name, deps, G)

\* the statement "import name" executed anywhere in the process
ImportStmt(w, name) == ImportVia(w.amb["import"], name, w.G)

\* the interpreter's open() on a file of the host
RealOpen(file, mode) ==
    IF \A k \in 1..Len(mode) : mode[k] # "r" THEN NoExc
    ELSE IF AbsPath(file) \notin ExistingFiles THEN Exc("FileNotFoundError", file)
    ELSE IF AbsPath(file) \in UnreadableFiles THEN Exc("PermissionError", file)
    ELSE NoExc

\* builtins.open(file, mode) when the interception point holds fn:
\* RestrictedFileSystem.secure_open of guard set fn, or the interpreter's open
RECURSIVE OpenVia(_, _, _, _)
OpenVia(fn, file, mode, G) ==
    IF fn = 0 THEN RealOpen(file, mode)
    ELSE IF ~ is_path_allowed(G[fn], file, IsWriteMode(mode))
    THEN Exc("SecurityError", file)
    ELSE OpenVia(G[fn].original_open, file, mode, G)

\* a call of open(file, mode) executed anywhere in the process
OpenCall(w, file, mode) == OpenVia(w.amb["open"], file, mode, w.G)

\* Path(path).open(*args) when Path.open holds fn. __enter__ stores the bound
\* method self.secure_path_open in the class attribute, and a bound method
\* is not bound again to the Path instance: the first positional argument of
\* the call arrives as path_self and mode keeps its default 'r'; a call with
\* no positional argument misses path_self.
PathOpenVia(fn, path, args, G) ==
    IF fn = 0 THEN RealOpen(path, IF args = << >> THEN Mode_r ELSE args[1])
    ELSE IF args = << >> THEN Exc("TypeError", << >>)
    ELSE LET filepath == args[1]
             mode == Mode_r
         IN  IF ~ is_path_allowed(G[fn], filepath, IsWriteMode(mode))
             THEN Exc("SecurityError", filepath)
             ELSE OpenVia(G[fn].original_open, filepath, mode, G)

\* the interpreter's os.remove / os.unlink on a file of the host
RealRemove(path) ==
    IF AbsPath(path) \notin ExistingFiles THEN Exc("FileNotFoundError", path)
    ELSE NoExc

\* os.remove(path) or os.unlink(path) when the interception point holds fn:
\* RestrictedFileSystem.block_remove of guard set fn (its message names no
\* path), or the interpreter's function
RemoveVia(fn, path) ==
    IF fn = 0 THEN RealRemove(path)
    ELSE Exc("SecurityError", << >>)

\* socket.socket(...) when the interception point holds fn:
\* RestrictedNetwork.secure_socket of guard set fn, or the interpreter's
\* class; the connect() of the socket it returns is not intercepted
RECURSIVE SocketVia(_, _)
SocketVia(fn, G) ==
    IF fn = 0 THEN NoExc
    ELSE IF G[fn].allowed_hosts = << >> THEN Exc("SecurityError", << >>)
    ELSE SocketVia(G[fn].original_socket, G)

\* HTTPConnection(*cargs) when HTTPConnection.__init__ holds fn. __enter__
\* stores the bound method self.secure_http_connect in the class attribute,
\* so the new connection object is not passed: the first argument of the
\* constructor arrives as _self, the second as host and the third as port.
\* After its checks secure_http_connect calls the function it captured with
\* _self, a str, in the place of the connection object.
RECURSIVE HttpInitVia(_, _, _)
HttpInitVia(fn, cargs, G) ==
    IF fn = 0 THEN NoExc
    ELSE IF Len(cargs) < 2 THEN Exc("TypeError", << >>)
    ELSE LET host == cargs[2]
             port == IF Len(cargs) >= 3 THEN cargs[3] ELSE "80"
         IN  IF ~ is_host_allowed(G[fn], host) THEN Exc("SecurityError", host)
             ELSE IF ~ is_port_allowed(G[fn], port)
             THEN Exc("SecurityError", port)
             ELSE IF G[fn].original_http_connect = 0
             THEN Exc("AttributeError", << >>)
             ELSE HttpInitVia(G[fn].original_http_connect,
                              << cargs[1], host, port >>, G)

\* A URL is its scheme, the host of its netloc and the port of its netloc
\* ("" when the netloc names none).
Url(scheme, host, port) == [ scheme |-> scheme, host |-> host, port |-> port ]

\* parsed_url.port or (443 if parsed_url.scheme == 'https' else 80)
UrlPort(url) ==
    IF url.port # "" THEN url.port
    ELSE IF url.scheme = "https" THEN "443" ELSE "80"

\* the interpreter's urlopen: its handler constructs HTTPConnection(host,
\* timeout=...) for http and HTTPSConnection for https, whose __init__ calls
\* HTTPConnection.__init__(host, port, timeout, ...) with port None, and then
\* connects through socket.socket
RealUrlopen(url, w) ==
    LET cargs == IF url.scheme = "https"
                 THEN << url.host, "None", "timeout" >>
                 ELSE << url.host >>
        e1 == HttpInitVia(w.amb["http_init"], cargs, w.G)
    IN  IF Raised(e1) THEN e1
        ELSE SocketVia(w.amb["socket"], w.G)

\* urllib.request.urlopen(url) when the interception point holds fn:
\* RestrictedNetwork.secure_urlopen of guard set fn (its first statement is
\* an import), or the interpreter's urlopen
RECURSIVE UrlopenVia(_, _, _)
UrlopenVia(fn, url, w) ==
    IF fn = 0 THEN RealUrlopen(url, w)
    ELSE LET e0 == ImportStmt(w, M_urllib_parse)
             host == url.host
             port == UrlPort(url)
         IN  IF Raised(e0) THEN e0
             ELSE IF ~ is_host_allowed(w.G[fn], host)
             THEN Exc("SecurityError", host)
             ELSE IF ~ is_port_allowed(w.G[fn], port)
             THEN Exc("SecurityError", port)
             ELSE UrlopenVia(w.G[fn].original_urlopen, url, w)

\* ------------------------------------------------------------------------
\* The guards' __enter__ and __exit__ (n is the guard set the guard is of)
\* ------------------------------------------------------------------------
SetAmb(w, p, fn) == [ w EXCEPT !.amb[p] = fn ]
SetAttr(w, n, attr, v) == [ w EXCEPT !.G[n][attr] = v ]

\* RestrictedImportHook.__enter__
ImportHookEnter(w, n) == Ret(SetAmb(w, "import", n), NoExc)

\* RestrictedImportHook.__exit__
ImportHookExit(w, n) == Ret(SetAmb(w, "import", w.G[n].original_import), NoExc)

\* __enter__ with the test of allow_delete inverted
FileSystemEnter_DeleteInverted(w, n) ==
    LET w1 == SetAmb(SetAmb(w, "open", n), "path_open", n)
        w2 == IF w.G[n].allow_delete
              THEN SetAmb(SetAmb(w1, "remove", n), "unlink", n)
              ELSE w1
    IN  Ret(w2, NoExc)

\* RestrictedFileSystem.__enter__
FileSystemEnter(w, n) ==
    LET w1 == SetAmb(SetAmb(w, "open", n), "path_open", n)
        w2 == IF ~ w.G[n].allow_delete
              THEN SetAmb(SetAmb(w1, "remove", n), "unlink", n)
              ELSE w1
    IN  Ret(w2, NoExc)

\* RestrictedFileSystem.__exit__
FileSystemExit(w, n) == Ret(SetAmb(w, "open", w.G[n].original_open), NoExc)

\* RestrictedNetwork.__enter__: the three import statements run through
\* builtins.__import__; a SecurityError is neither ImportError nor
\* AttributeError, so no except clause of __enter__ catches it. The process
\* is one in which urllib.request and http.client are already loaded when
\* the importer is reached (loading them for the first time runs the class
\* statement of ssl.SSLSocket with the replaced socket.socket as its base).
NetworkEnter(w, n) ==
    LET e1 == ImportStmt(w, M_socket)
        w1 == SetAmb(SetAttr(w, n, "original_socket", w.amb["socket"]),
                     "socket", n)
        e2 == ImportStmt(w1, M_urllib_request)
        w2 == SetAmb(SetAttr(w1, n, "original_urlopen", w1.amb["urlopen"]),
                     "urlopen", n)
        e3 == ImportStmt(w2, M_http_client)
        w3 == SetAmb(SetAttr(w2, n, "original_http_connect", w2.amb["http_init"]),
                     "http_init", n)
    IN  IF Raised(e1) THEN Ret(w, e1)
        ELSE IF Raised(e2) THEN Ret(w1, e2)
        ELSE IF Raised(e3) THEN Ret(w2, e3)
        ELSE Ret(w3, NoExc)

\* RestrictedNetwork.__exit__: the AttributeError of an unset original_socket
\* is caught; a SecurityError of the import statement is not.
NetworkExit(w, n) ==
    LET e1 == ImportStmt(w, M_socket)
    IN  IF Raised(e1) THEN Ret(w, e1)
        ELSE IF w.G[n].original_socket = Unset THEN Ret(w, NoExc)
        ELSE Ret(SetAmb(w, "socket", w.G[n].original_socket), NoExc)

\* __enter__ if it called os.environ.update(restricted_env) without
\* os.environ.clear()
EnvironmentEnter_NoClear(w, n) ==
    IF ~ w.G[n].allow_access
    THEN Ret(SetAttr(SetAttr(w, n, "original_environ", w.environ),
                     n, "has_original_environ", TRUE), NoExc)
    ELSE Ret(w, NoExc)

\* RestrictedEnvironment.__enter__
EnvironmentEnter(w, n) ==
    IF ~ w.G[n].allow_access
    THEN LET saved == SetAttr(SetAttr(w, n, "original_environ", w.environ),
                              n, "has_original_environ", TRUE)
             restricted_env ==
                 { kv \in w.environ : kv[1] \in w.G[n].allowed_env_vars }
         IN  Ret([ saved EXCEPT !.environ = restricted_env ], NoExc)
    ELSE Ret(w, NoExc)

\* RestrictedEnvironment.__exit__: os.environ.clear() runs before
\* self.original_environ is read
EnvironmentExit(w, n) ==
    IF ~ w.G[n].allow_access
    THEN IF w.G[n].has_original_environ
         THEN Ret([ w EXCEPT !.environ = w.G[n].original_environ ], NoExc)
         ELSE Ret([ w EXCEPT !.environ = { } ],
                  Exc("AttributeError", << >>))
    ELSE Ret(w, NoExc)

\* restriction.__enter__() of the guard named g
GuardEnter(w, n, g) ==
    CASE g = "import" -> ImportHookEnter(w, n)
      [] g = "filesystem" -> FileSystemEnter(w, n)
      [] g = "network" -> NetworkEnter(w, n)
      [] g = "environment" -> EnvironmentEnter(w, n)

\* restriction.__exit__(None, None, None) of the guard named g
GuardExit(w, n, g) ==
    CASE g = "import" -> ImportHookExit(w, n)
      [] g = "filesystem" -> FileSystemExit(w, n)
      [] g = "network" -> NetworkExit(w, n)
      [] g = "environment" -> EnvironmentExit(w, n)

\* ------------------------------------------------------------------------
\* Sandboxed scripts
\* ------------------------------------------------------------------------

\* A script is the sequence of guarded operations its source performs and the
\* way it ends: each operation is an import statement or a call of open(),
\* written inside "try: ... except Exception: pass" when catches is TRUE; the
\* script then returns, raises ValueError or calls sys.exit(3).
ImportOp(name, catches) ==
    [ kind |-> "import", arg |-> name, mode |-> << >>, catches |-> catches ]
OpenOp(file, mode, catches) ==
    [ kind |-> "open", arg |-> file, mode |-> mode, catches |-> catches ]
Script(ops, end) == [ ops |-> ops, end |-> end ]

S_noop == Script(<< >>, "return")
S_read_data == Script(<< OpenOp(P_data_x, Mode_r, FALSE) >>, "return")
S_write_data == Script(<< OpenOp(P_data_x, Mode_w, FALSE) >>, "return")
S_import_caught == Script(<< ImportOp(M_subprocess, TRUE) >>, "return")
S_raise == Script(<< ImportOp(M_json, FALSE) >>, "raise")
S_exit == Script(<< >>, "exit")

\* one operation of the script, through the interception points
OpResult(w, op) ==
    IF op.kind = "import" THEN ImportStmt(w, op.arg)
    ELSE OpenCall(w, op.arg, op.mode)

\* the operations of the script in order, up to the first exception the
\* script does not catch itself (a SecurityError is an Exception)
RECURSIVE RunOps(_, _)
RunOps(w, ops) ==
    IF ops = << >> THEN NoExc
    ELSE LET e == OpResult(w, Head(ops))
         IN  IF Raised(e) /\ ~ Head(ops).catches THEN e
             ELSE RunOps(w, Tail(ops))

\* exec(compile(script_content, script_path, 'exec'), script_globals)
ExecScript(w, file, script) ==
    IF file \in NonCompiling THEN Exc("SyntaxError", file)
    ELSE LET e == RunOps(w, script.ops)
         IN  IF Raised(e) THEN e
             ELSE IF script.end = "raise" THEN Exc("ValueError", << >>)
             ELSE IF script.end = "exit" THEN Exc("SystemExit", << >>)
             ELSE NoExc

\* ------------------------------------------------------------------------
\* Inputs
\* ------------------------------------------------------------------------

\* a JSON object with no key
EmptyDict == [ k \in { } |-> 0 ]

\* Profile documents: every section may be missing, and a section may miss
\* fields.
ImportsOpts ==
    { EmptyDict,
      [ allowed_imports |-> << >> ],
      [ allowed_imports |-> << M_socket, M_urllib, M_http >> ],
      [ allowed_imports |-> << M_socketserver, M_json >> ] }
FilesystemOpts ==
    { EmptyDict,
      [ filesystem |-> [ read_paths |-> << P_data >> ] ],
      [ filesystem |-> [ read_paths |-> << P_data, P_app >>,
                         write_paths |-> << P_data >>,
                         allow_delete |-> TRUE ] ] }
NetworkOpts ==
    { EmptyDict,
      [ network |-> [ allowed_hosts |-> << "*" >>, allowed_ports |-> << "80" >>,
                      allow_localhost |-> TRUE ] ] }
EnvironmentOpts ==
    { EmptyDict,
      [ environment |-> [ allow_access |-> TRUE ] ],
      [ environment |-> [ allow_access |-> FALSE ] ] }
Profiles ==
    { a @@ f @@ n @@ e : a \in ImportsOpts, f \in FilesystemOpts,
                         n \in NetworkOpts, e \in EnvironmentOpts }

ScriptPaths == { P_app_s, P_data_s, P_app_missing, P_app_bad, P_app_locked }
Scripts == { S_noop, S_read_data, S_write_data, S_import_caught, S_raise, S_exit }

\* sys.argv: no script path; a path alone; a path and a profile that is not
\* JSON; a path and a profile document
ArgvKinds == { "none", "path", "path_badjson", "path_profile" }

\* ------------------------------------------------------------------------
\* State
\* ------------------------------------------------------------------------
VARIABLES
    argv_kind,      \* the shape of sys.argv
    script_path,    \* sys.argv[1]
    profile,        \* json.loads(sys.argv[2])
    script,         \* what the source of the script does when executed
    amb,            \* the process-wide interception points
    environ,        \* os.environ
    G,              \* the guard sets constructed so far
    pc,             \* where main / run_sandboxed_script / the client is
    i,              \* position in the try block, or in the finally loop
    exc,            \* the exception in flight, or the last one a client saw
    enter_log,      \* the calls of __enter__ in order: << guard, raised >>
    exit_log,       \* the calls of __exit__ in order: << guard, raised >>
    denied,         \* the resources refused during run_sandboxed_script
    pre,            \* amb and environ when the guards were constructed
    exit_code,      \* the exit status of the process, Unset while it runs
    stack,          \* the guards a client holds entered, innermost last
    call,           \* the last call a client made through an interception point
    runs,           \* the calls of run_sandboxed_script made by two threads
    tpl             \* a call of ScriptBase.run of the script template

vars == << argv_kind, script_path, profile, script, amb, environ, G, pc, i,
           exc, enter_log, exit_log, denied, pre, exit_code, stack, call,
           runs, tpl >>

\* what the wrapper's own run and the client of the guards leave alone
elsewhere == << runs, tpl >>

inputs == << argv_kind, script_path, profile, script >>

NoCall == [ kind |-> "none", arg |-> << >>, exc |-> NoExc, via |-> 0 ]

\* the world the running code sees
W == World(amb, environ, G)

\* the guards named in a log, in order; those whose call raised or returned
Names(log) == [ k \in 1..Len(log) |-> log[k][1] ]
Guards(log) == { log[k][1] : k \in 1..Len(log) }
Returned(log) == SelectSeq(log, LAMBDA c : ~ c[2])
Failed(log) == SelectSeq(log, LAMBDA c : c[2])
Count(log, g) == Cardinality({ k \in 1..Len(log) : log[k][1] = g })

\* the state of a process that has just started
Fresh ==
    /\ amb = OriginalAmbient
    /\ environ = HostEnviron
    /\ i = 0
    /\ exc = NoExc
    /\ enter_log = << >>
    /\ exit_log = << >>
    /\ denied = { }
    /\ pre = [ amb |-> OriginalAmbient, environ |-> HostEnviron ]
    /\ exit_code = Unset
    /\ stack = << >>
    /\ call = NoCall
    /\ runs = << >>
    /\ tpl = << >>

\* the sandbox wrapper started from the command line
Init ==
    /\ argv_kind \in ArgvKinds
    /\ script_path \in (IF argv_kind = "none" THEN { P_app_s } ELSE ScriptPaths)
    /\ profile \in (IF argv_kind = "path_profile" THEN Profiles ELSE { EmptyDict })
    /\ script \in (IF argv_kind \in { "none", "path_badjson" }
                   THEN { S_noop } ELSE Scripts)
    /\ pc = "main"
    /\ G = << >>
    /\ Fresh

\* ------------------------------------------------------------------------
\* main and run_sandboxed_script
\* ------------------------------------------------------------------------

\* main, up to the call of run_sandboxed_script: the usage error and the
\* JSONDecodeError both end in sys.exit(1)
MainParse ==
    /\ pc = "main"
    /\ IF argv_kind \in { "none", "path_badjson" }
       THEN /\ pc' = "exited"
            /\ exit_code' = 1
       ELSE /\ pc' = "call"
            /\ UNCHANGED exit_code
    /\ UNCHANGED << inputs, elsewhere, amb, environ, G, i, exc, enter_log, exit_log,
                    denied, pre, stack, call >>

\* the security_profile main passes to run_sandboxed_script
security_profile ==
    IF argv_kind = "path_profile" THEN profile ELSE DEFAULT_SECURITY_PROFILE

\* the existence check left out
ScriptExists_Unchecked(path) == TRUE

\* os.path.exists(script_path)
ScriptExists(path) == path \in ExistingFiles

\* run_sandboxed_script up to the try statement: the existence check and
\* apply_security_restrictions
RunStart ==
    /\ pc = "call"
    /\ pre' = [ amb |-> amb, environ |-> environ ]
    /\ IF ~ ScriptExists(script_path)
       THEN /\ exc' = Exc("SandboxException", script_path)
            /\ pc' = "unwound"
            /\ UNCHANGED << G, i >>
       ELSE /\ G' = Append(G, apply_security_restrictions(security_profile, amb))
            /\ pc' = "try"
            /\ i' = 1
            /\ UNCHANGED exc
    /\ UNCHANGED << inputs, elsewhere, amb, environ, enter_log, exit_log, denied,
                    exit_code, stack, call >>

\* where an exception raised inside the try block goes: "except Exception"
\* takes the classes that derive from Exception, the others go straight to
\* the finally clause
AfterRaise(e) == IF IsException(e) THEN "except" ELSE "finally"

\* the resource a SecurityError names, as a set
DenialOf(e) == IF e.type = "SecurityError" THEN { e.res } ELSE { }

\* the resources refused while the operations of a script run, those the
\* script catches included
RECURSIVE OpsDenials(_, _)
OpsDenials(w, ops) ==
    IF ops = << >> THEN { }
    ELSE LET e == OpResult(w, Head(ops))
         IN  IF Raised(e) /\ ~ Head(ops).catches THEN DenialOf(e)
             ELSE DenialOf(e) \cup OpsDenials(w, Tail(ops))

\* One step of the try block of run_sandboxed_script: steps 1..4 are the
\* loop "for restriction in restrictions: restriction.__enter__()", step 5
\* reads the script through builtins.open, step 6 compiles and executes it.
\* (Step 3, RestrictedNetwork.__enter__, imports socket through the import
\* guard entered at step 1, which refuses it under every allowed_imports:
\* steps 4 to 6 are written as the code has them but no run takes them.)
TryStep ==
    /\ pc = "try"
    /\ LET n == Len(G)
           g == GuardOrder[IF i <= 4 THEN i ELSE 4]
           r == IF i <= 4 THEN GuardEnter(W, n, g)
                ELSE IF i = 5 THEN Ret(W, OpenCall(W, script_path, Mode_r))
                ELSE Ret(W, ExecScript(W, script_path, script))
       IN  /\ amb' = r.w.amb
           /\ environ' = r.w.environ
           /\ G' = r.w.G
           /\ enter_log' = IF i <= 4
                           THEN Append(enter_log, << g, Raised(r.exc) >>)
                           ELSE enter_log
           /\ denied' = IF i = 6 /\ script_path \notin NonCompiling
                        THEN denied \cup OpsDenials(W, script.ops)
                        ELSE denied \cup DenialOf(r.exc)
           /\ exc' = r.exc
           /\ IF Raised(r.exc)
              THEN /\ pc' = AfterRaise(r.exc)
                   /\ i' = 1
              ELSE IF i = 6
              THEN /\ pc' = "finally"
                   /\ i' = 1
              ELSE /\ pc' = "try"
                   /\ i' = i + 1
    /\ UNCHANGED << inputs, elsewhere, exit_log, pre, exit_code, stack, call >>

\* the except clause of run_sandboxed_script: two prints and a bare raise
ExceptClause ==
    /\ pc = "except"
    /\ pc' = "finally"
    /\ UNCHANGED << inputs, elsewhere, amb, environ, G, i, exc, enter_log, exit_log,
                    denied, pre, exit_code, stack, call >>

\* One iteration of the finally clause of run_sandboxed_script:
\* "for restriction in reversed(restrictions): restriction.__exit__(...)".
\* An exception of __exit__ leaves the loop and the function, with the
\* exception that was in flight as its context.
FinallyStep ==
    /\ pc = "finally"
    /\ LET n == Len(G)
           g == Reverse(GuardOrder)[i]
           r == GuardExit(W, n, g)
       IN  /\ amb' = r.w.amb
           /\ environ' = r.w.environ
           /\ G' = r.w.G
           /\ exit_log' = Append(exit_log, << g, Raised(r.exc) >>)
           /\ denied' = denied \cup DenialOf(r.exc)
           /\ IF Raised(r.exc)
              THEN /\ exc' = WithContext(r.exc, exc)
                   /\ pc' = "unwound"
                   /\ i' = 0
              ELSE /\ UNCHANGED exc
                   /\ IF i = 4
                      THEN pc' = "unwound" /\ i' = 0
                      ELSE pc' = "finally" /\ i' = i + 1
    /\ UNCHANGED << inputs, elsewhere, enter_log, pre, exit_code, stack, call >>

\* the exit status of the process for the exception that leaves
\* run_sandboxed_script: the except clauses of main, and the interpreter for
\* what main re-raises or does not catch
ExitCodeFor(e) ==
    IF e.type = "none" THEN 0
    ELSE IF e.type = "SandboxException" THEN 1
    ELSE IF e.type = "SecurityError" THEN 2
    ELSE IF e.type = "SystemExit" THEN 3
    ELSE 1

\* main after run_sandboxed_script has returned or raised
MainHandle ==
    /\ pc = "unwound"
    /\ pc' = "exited"
    /\ exit_code' = ExitCodeFor(exc)
    /\ UNCHANGED << inputs, elsewhere, amb, environ, G, i, exc, enter_log, exit_log,
                    denied, pre, stack, call >>

Next ==
    \/ MainParse
    \/ RunStart
    \/ TryStep
    \/ ExceptClause
    \/ FinallyStep
    \/ MainHandle

Spec == Init /\ [][Next]_vars

\* run_sandboxed_script has returned to, or raised into, its caller
RunOver == pc \in { "unwound", "exited" }

\* ------------------------------------------------------------------------
\* The guards used directly: a client builds the guard set of a profile with
\* apply_security_restrictions, uses each guard as a context manager (once,
\* the with statements properly nested) and meanwhile imports modules.
\* ------------------------------------------------------------------------

\* the profiles a client builds guards from
ClientProfiles ==
    { a @@ f @@ e :
        a \in ImportsOpts \ { [ allowed_imports |-> << >> ] },
        f \in { EmptyDict,
                [ filesystem |-> [ read_paths |-> << P_data >>,
                                   allow_delete |-> TRUE ] ] },
        e \in { EmptyDict, [ environment |-> [ allow_access |-> TRUE ] ] } }

InitGuards ==
    /\ argv_kind = "path_profile"
    /\ script_path = P_app_s
    /\ profile \in ClientProfiles
    /\ script = S_noop
    /\ pc = "client"
    /\ G = << apply_security_restrictions(profile, OriginalAmbient) >>
    /\ Fresh

\* "with guard:" is entered: restriction.__enter__(); the body is entered
\* only if __enter__ returns
ClientEnter(g) ==
    /\ pc = "client"
    /\ g \notin Guards(enter_log)
    /\ LET r == GuardEnter(W, 1, g)
       IN  /\ amb' = r.w.amb
           /\ environ' = r.w.environ
           /\ G' = r.w.G
           /\ enter_log' = Append(enter_log, << g, Raised(r.exc) >>)
           /\ stack' = IF Raised(r.exc) THEN stack ELSE Append(stack, g)
           /\ exc' = r.exc
    /\ UNCHANGED << inputs, elsewhere, pc, i, exit_log, denied, pre, exit_code, call >>

\* the innermost "with guard:" is left: restriction.__exit__(...)
ClientExit ==
    /\ pc = "client"
    /\ stack # << >>
    /\ LET g == stack[Len(stack)]
           r == GuardExit(W, 1, g)
       IN  /\ amb' = r.w.amb
           /\ environ' = r.w.environ
           /\ G' = r.w.G
           /\ exit_log' = Append(exit_log, << g, Raised(r.exc) >>)
           /\ stack' = SubSeq(stack, 1, Len(stack) - 1)
           /\ exc' = r.exc
    /\ UNCHANGED << inputs, elsewhere, pc, i, enter_log, denied, pre, exit_code, call >>

\* the client executes "import name"; via is the function builtins.__import__
\* holds at that moment
ClientImport(name) ==
    /\ pc = "client"
    /\ call' = [ kind |-> "import", arg |-> name, exc |-> ImportStmt(W, name),
                 via |-> amb["import"],
                 chain |-> ImportChain(amb["import"], name, G) ]
    /\ UNCHANGED << inputs, elsewhere, amb, environ, G, pc, i, exc, enter_log, exit_log,
                    denied, pre, exit_code, stack >>

\* the client executes "import name" for a module the process has not loaded
\* yet; deps are the modules that module's body imports, in order
ClientFirstImport(name, deps) ==
    /\ pc = "client"
    /\ call' = [ kind |-> "first_import", arg |-> name, deps |-> deps,
                 exc |-> FirstImportVia(amb["import"], amb["import"],
                                        name, deps, G),
                 via |-> amb["import"] ]
    /\ UNCHANGED << inputs, elsewhere, amb, environ, G, pc, i, exc, enter_log, exit_log,
                    denied, pre, exit_code, stack >>

NextGuards ==
    \/ \E g \in { "import", "filesystem", "network", "environment" } :
          ClientEnter(g)
    \/ ClientExit
    \/ \E name \in { M_socket, M_socketserver, M_subprocess, M_os, M_os_path,
                      M_json, M_json_decoder, M_urllib_request } :
          ClientImport(name)

SpecGuards == InitGuards /\ [][NextGuards]_vars

\* ------------------------------------------------------------------------
\* One guard used on its own: the client builds the guards of a profile and
\* uses a single one of them as a context manager.
\* ------------------------------------------------------------------------
InitClient(profiles) ==
    /\ argv_kind = "path_profile"
    /\ script_path = P_app_s
    /\ profile \in profiles
    /\ script = S_noop
    /\ pc = "client"
    /\ G = << apply_security_restrictions(profile, OriginalAmbient) >>
    /\ Fresh

\* RestrictedImportHook alone
ImportProfiles ==
    { EmptyDict,
      [ allowed_imports |-> << >> ],
      [ allowed_imports |-> dangerous_modules ],
      [ allowed_imports |-> << M_os, M_socket, M_json, M_shutil_rmtree >> ] }

NextImport ==
    \/ ClientEnter("import")
    \/ ClientExit
    \/ \E name \in { dangerous_modules[k] : k \in 1..Len(dangerous_modules) }
                      \cup { M_socketserver, M_os, M_os_path, M_json,
                             M_json_decoder } :
          ClientImport(name)
    \/ \E name \in { M_datetime, M_json } :
          \E d1, d2 \in { M_math, M_sys, M_os, M_socket } :
             \E deps \in { << >>, << d1 >>, << d1, d2 >> } :
                ClientFirstImport(name, deps)

SpecImport == InitClient(ImportProfiles) /\ [][NextImport]_vars

\* the client is inside "with guard:" of the guard named g
Active(g) == \E k \in 1..Len(stack) : stack[k] = g

\* the client calls guard.is_path_allowed(filepath, write_mode)
ClientPathCheck(filepath, write_mode) ==
    /\ pc = "client"
    /\ call' = [ kind |-> "is_path_allowed", arg |-> filepath,
                 write_mode |-> write_mode,
                 result |-> is_path_allowed(G[1], filepath, write_mode) ]
    /\ UNCHANGED << inputs, elsewhere, amb, environ, G, pc, i, exc, enter_log, exit_log,
                    denied, pre, exit_code, stack >>

\* the client calls open(file, mode)
ClientOpen(file, mode) ==
    /\ pc = "client"
    /\ call' = [ kind |-> "open", arg |-> file, mode |-> mode,
                 exc |-> OpenCall(W, file, mode), via |-> amb["open"] ]
    /\ UNCHANGED << inputs, elsewhere, amb, environ, G, pc, i, exc, enter_log, exit_log,
                    denied, pre, exit_code, stack >>

\* the client calls Path(file).open(*args)
ClientPathOpen(file, args) ==
    /\ pc = "client"
    /\ call' = [ kind |-> "path_open", arg |-> file, args |-> args,
                 exc |-> PathOpenVia(amb["path_open"], file, args, G),
                 via |-> amb["path_open"] ]
    /\ UNCHANGED << inputs, elsewhere, amb, environ, G, pc, i, exc, enter_log, exit_log,
                    denied, pre, exit_code, stack >>

\* the client calls os.remove(path) (point "remove") or os.unlink(path)
ClientRemove(point, path) ==
    /\ pc = "client"
    /\ call' = [ kind |-> point, arg |-> path,
                 exc |-> RemoveVia(amb[point], path), via |-> amb[point],
                 active |-> Active("filesystem") ]
    /\ UNCHANGED << inputs, elsewhere, amb, environ, G, pc, i, exc, enter_log, exit_log,
                    denied, pre, exit_code, stack >>

\* RestrictedFileSystem alone
FsProfiles ==
    { EmptyDict,
      [ filesystem |-> [ read_paths |-> << P_data >> ] ],
      [ filesystem |-> [ read_paths |-> << P_data >>,
                         write_paths |-> << P_database >> ] ],
      [ filesystem |-> [ read_paths |-> << P_data \o << "/" >>, P_app >>,
                         write_paths |-> << P_data >>,
                         allow_delete |-> TRUE ] ],
      [ filesystem |-> [ write_paths |-> << P_app >> ] ],
      [ filesystem |-> [ allow_delete |-> TRUE ] ] }

FsPaths == { P_data, P_data_x, P_database_y, P_app_s, P_data_up, P_rel_s }

NextFs ==
    \/ ClientEnter("filesystem")
    \/ ClientExit
    \/ \E f \in FsPaths, wm \in BOOLEAN : ClientPathCheck(f, wm)
    \/ \E f \in FsPaths, mode \in { Mode_r, Mode_w, << "r", "+" >> } :
          ClientOpen(f, mode)
    \/ \E f \in FsPaths, args \in { << >>, << Mode_r >>, << Mode_w >> } :
          ClientPathOpen(f, args)
    \/ \E point \in { "remove", "unlink" }, f \in FsPaths :
          ClientRemove(point, f)

SpecFs == InitClient(FsProfiles) /\ [][NextFs]_vars

\* the client calls guard.is_host_allowed(host)
ClientHostCheck(host) ==
    /\ pc = "client"
    /\ call' = [ kind |-> "is_host_allowed", arg |-> host,
                 result |-> is_host_allowed(G[1], host) ]
    /\ UNCHANGED << inputs, elsewhere, amb, environ, G, pc, i, exc, enter_log, exit_log,
                    denied, pre, exit_code, stack >>

\* the client calls socket.socket() and connects the socket to host:port
ClientSocket(host, port) ==
    /\ pc = "client"
    /\ call' = [ kind |-> "socket", host |-> host, port |-> port,
                 exc |-> SocketVia(amb["socket"], G), via |-> amb["socket"],
                 active |-> Active("network") ]
    /\ UNCHANGED << inputs, elsewhere, amb, environ, G, pc, i, exc, enter_log, exit_log,
                    denied, pre, exit_code, stack >>

\* the client calls urllib.request.urlopen(url)
ClientUrlopen(url) ==
    /\ pc = "client"
    /\ call' = [ kind |-> "urlopen", host |-> url.host, port |-> UrlPort(url),
                 exc |-> UrlopenVia(amb["urlopen"], url, W),
                 via |-> amb["urlopen"], active |-> Active("network") ]
    /\ UNCHANGED << inputs, elsewhere, amb, environ, G, pc, i, exc, enter_log, exit_log,
                    denied, pre, exit_code, stack >>

\* the client calls http.client.HTTPConnection(host) or
\* HTTPConnection(host, port)
ClientHttp(cargs) ==
    /\ pc = "client"
    /\ call' = [ kind |-> "http", host |-> cargs[1],
                 port |-> IF Len(cargs) >= 2 THEN cargs[2] ELSE "80",
                 exc |-> HttpInitVia(amb["http_init"], cargs, G),
                 via |-> amb["http_init"], active |-> Active("network") ]
    /\ UNCHANGED << inputs, elsewhere, amb, environ, G, pc, i, exc, enter_log, exit_log,
                    denied, pre, exit_code, stack >>

\* RestrictedNetwork alone
NetProfiles ==
    { [ network |-> n ] :
        n \in [ allowed_hosts : { << >>, << "*" >>, << "example.com" >>,
                                  << "example.com", "::1" >> },
                allowed_ports : { << >>, << "80" >>, << "80", "443" >> },
                allow_localhost : BOOLEAN ] }
        \cup { EmptyDict }

Hosts == { "localhost", "127.0.0.1", "::1", "example.com", "evil.com" }
Ports == { "80", "443", "8080" }

NextNet ==
    \/ ClientEnter("network")
    \/ ClientExit
    \/ \E host \in Hosts : ClientHostCheck(host)
    \/ \E host \in Hosts, port \in Ports : ClientSocket(host, port)
    \/ \E scheme \in { "http", "https" }, host \in Hosts,
          port \in Ports \cup { "" } : ClientUrlopen(Url(scheme, host, port))
    \/ \E host \in Hosts, port \in Ports :
          \/ ClientHttp(<< host >>)
          \/ ClientHttp(<< host, port >>)

SpecNet == InitClient(NetProfiles) /\ [][NextNet]_vars

\* inside "with guard:" the client executes os.environ[key] = value
ClientSetEnv(key, value) ==
    /\ pc = "client"
    /\ Active("environment")
    /\ environ' = { kv \in environ : kv[1] # key } \cup { << key, value >> }
    /\ call' = [ kind |-> "environ_set", arg |-> key ]
    /\ UNCHANGED << inputs, elsewhere, amb, G, pc, i, exc, enter_log, exit_log,
                    denied, pre, exit_code, stack >>

\* inside "with guard:" the client executes del os.environ[key] for a key
\* that is set
ClientDelEnv(key) ==
    /\ pc = "client"
    /\ Active("environment")
    /\ \E kv \in environ : kv[1] = key
    /\ environ' = { kv \in environ : kv[1] # key }
    /\ call' = [ kind |-> "environ_del", arg |-> key ]
    /\ UNCHANGED << inputs, elsewhere, amb, G, pc, i, exc, enter_log, exit_log,
                    denied, pre, exit_code, stack >>

\* RestrictedEnvironment alone
EnvProfiles ==
    { EmptyDict,
      [ environment |-> [ allow_access |-> TRUE ] ],
      [ environment |-> [ allow_access |-> FALSE ] ],
      [ environment |-> [ allow_access |-> FALSE,
                          passthrough_vars |-> << "HOME" >> ] ],
      [ environment |-> [ passthrough_vars |-> << "HOME", "API_KEY" >> ] ] }

NextEnv ==
    \/ ClientEnter("environment")
    \/ ClientExit
    \/ \E key \in { "PATH", "HOME", "NEW" } : ClientSetEnv(key, "x")
    \/ \E key \in { "PATH", "HOME", "NEW", "LANG" } : ClientDelEnv(key)

SpecEnv == InitClient(EnvProfiles) /\ [][NextEnv]_vars

\* The four guards of the profile that grants nothing: every list empty and
\* every boolean false.
DenyAllProfile ==
    [ allowed_imports |-> << >>,
      filesystem |-> [ read_paths |-> << >>, write_paths |-> << >>,
                       allow_delete |-> FALSE ],
      network |-> [ allowed_hosts |-> << >>, allowed_ports |-> << >>,
                    allow_localhost |-> FALSE ],
      environment |-> [ allow_access |-> FALSE ] ]

NextDenyAll ==
    \/ \E g \in { "import", "filesystem", "network", "environment" } :
          ClientEnter(g)
    \/ ClientExit
    \/ \E name \in { M_os_path, M_json, M_socket } : ClientImport(name)
    \/ \E f \in { P_data_x, P_rel_s }, mode \in { Mode_r, Mode_w } :
          ClientOpen(f, mode)
    \/ \E args \in { << >>, << Mode_r >>, << Mode_w >> } :
          ClientPathOpen(P_data_x, args)
    \/ \E point \in { "remove", "unlink" } : ClientRemove(point, P_data_x)
    \/ ClientSocket("localhost", "80")
    \/ \E scheme \in { "http", "https" } :
          ClientUrlopen(Url(scheme, "localhost", ""))
    \/ \E cargs \in { << "localhost" >>, << "localhost", "80" >> } :
          ClientHttp(cargs)

SpecDenyAll == InitClient({ DenyAllProfile }) /\ [][NextDenyAll]_vars

\* ------------------------------------------------------------------------
\* Two threads of one process each call run_sandboxed_script once, with a
\* profile of their own; a thread is preempted between two calls of a guard.
\* ------------------------------------------------------------------------

\* One step of the call made by thread k: the existence check and
\* apply_security_restrictions, one iteration of the loop of __enter__
\* calls, the reading or the execution of the script, the except clause, or
\* one iteration of the finally loop. n is the guard set the call built, seq
\* whether the call began after the other thread's had ended.
RunThread(k) ==
    /\ pc = "threads"
    /\ runs[k].pc # "unwound"
    /\ LET r == runs[k]
           g == IF r.pc = "finally" THEN Reverse(GuardOrder)[r.i]
                ELSE GuardOrder[IF r.i <= 4 THEN r.i ELSE 4]
       IN  \E res \in {
               CASE r.pc = "call" ->
                      IF ~ ScriptExists(script_path)
                      THEN Ret(W, Exc("SandboxException", script_path))
                      ELSE Ret(World(amb, environ,
                                     Append(G, apply_security_restrictions(
                                                   r.profile, amb))), NoExc)
                 [] r.pc = "try" ->
                      IF r.i <= 4 THEN GuardEnter(W, r.n, g)
                      ELSE IF r.i = 5
                      THEN Ret(W, OpenCall(W, script_path, Mode_r))
                      ELSE Ret(W, ExecScript(W, script_path, script))
                 [] r.pc = "except" -> Ret(W, NoExc)
                 [] r.pc = "finally" -> GuardExit(W, r.n, g) } :
       LET e == res.exc
           next ==
               CASE r.pc = "call" ->
                      IF Raised(e)
                      THEN [ r EXCEPT !.pc = "unwound", !.exc = e ]
                      ELSE [ r EXCEPT !.pc = "try", !.i = 1, !.n = Len(G) + 1,
                                      !.seq = (runs[3 - k].pc = "unwound") ]
                 [] r.pc = "try" ->
                      IF Raised(e)
                      THEN [ r EXCEPT !.pc = AfterRaise(e), !.i = 1, !.exc = e ]
                      ELSE IF r.i = 6 THEN [ r EXCEPT !.pc = "finally", !.i = 1 ]
                      ELSE [ r EXCEPT !.i = r.i + 1 ]
                 [] r.pc = "except" -> [ r EXCEPT !.pc = "finally" ]
                 [] r.pc = "finally" ->
                      IF Raised(e)
                      THEN [ r EXCEPT !.pc = "unwound", !.i = 0,
                                      !.exc = WithContext(e, r.exc) ]
                      ELSE IF r.i = 4 THEN [ r EXCEPT !.pc = "unwound", !.i = 0 ]
                      ELSE [ r EXCEPT !.i = r.i + 1 ]
       IN  /\ amb' = res.w.amb
           /\ environ' = res.w.environ
           /\ G' = res.w.G
           /\ runs' = [ runs EXCEPT ![k] = next ]
    /\ UNCHANGED << inputs, tpl, pc, i, exc, enter_log, exit_log, denied,
                    pre, exit_code, stack, call >>

\* the profiles the two threads pass
ThreadProfiles ==
    { EmptyDict,
      [ allowed_imports |-> << >>,
        environment |-> [ allow_access |-> TRUE ] ],
      [ allowed_imports |-> << M_json, M_os >>,
        filesystem |-> [ read_paths |-> << P_app >> ] ] }

InitThreads ==
    /\ argv_kind = "path_profile"
    /\ script_path = P_app_s
    /\ profile = EmptyDict
    /\ script = S_noop
    /\ pc = "threads"
    /\ G = << >>
    /\ amb = OriginalAmbient
    /\ environ = HostEnviron
    /\ i = 0
    /\ exc = NoExc
    /\ enter_log = << >>
    /\ exit_log = << >>
    /\ denied = { }
    /\ pre = [ amb |-> OriginalAmbient, environ |-> HostEnviron ]
    /\ exit_code = Unset
    /\ stack = << >>
    /\ call = NoCall
    /\ tpl = << >>
    /\ runs \in [ { 1, 2 } -> { [ pc |-> "call", i |-> 0, exc |-> NoExc,
                                  n |-> 0, seq |-> FALSE, profile |-> p ] :
                                p \in ThreadProfiles } ]

NextThreads == \E k \in { 1, 2 } : RunThread(k)

SpecThreads == InitThreads /\ [][NextThreads]_vars

\* ------------------------------------------------------------------------
\* The script template: ScriptBase.run of a script that implements
\* ScriptHooks.  tpl.hooks holds what each method of the script does when it
\* is called ("True", "False" or "ok" for what it returns, "raise" for an
\* Exception, and for post_execute "raise_once" for an Exception on the first
\* call only); tpl.calls is the list of hook calls made so far, each with its
\* argument; tpl.ret is what run returned.
\* ------------------------------------------------------------------------

\* ScriptBase.validate_inputs(): the hook calls it makes and its outcome
\* ("True", "False", or "raise" when post_validate(False) raises inside the
\* except clause)
validate_inputs(h) ==
    LET failed == \* the except clause
            [ calls |-> << << "post_validate", "False" >> >>,
              result |-> IF h.post_validate = "raise" THEN "raise" ELSE "False" ]
    IN  IF h.pre_validate = "False"
        THEN [ calls |-> << << "pre_validate", "" >> >>, result |-> "False" ]
        ELSE IF h.pre_validate = "raise" \/ h.inputs = "raise"
        THEN [ calls |-> << << "pre_validate", "" >> >> \o failed.calls,
               result |-> failed.result ]
        ELSE IF h.post_validate = "raise"
        THEN [ calls |-> << << "pre_validate", "" >>,
                            << "post_validate", "True" >> >> \o failed.calls,
               result |-> failed.result ]
        ELSE [ calls |-> << << "pre_validate", "" >>,
                            << "post_validate", "True" >> >>,
               result |-> "True" ]

\* run: the pre_execute hook
TplPreExecute ==
    /\ pc = "template"
    /\ tpl.pc = "pre_execute"
    /\ tpl' = [ tpl EXCEPT
                  !.calls = Append(@, << "pre_execute", "" >>),
                  !.pc = CASE tpl.hooks.pre_execute = "True" -> "validate"
                           [] tpl.hooks.pre_execute = "False" -> "returned"
                           [] OTHER -> "except",
                  !.ret = IF tpl.hooks.pre_execute = "False" THEN 1 ELSE @ ]
    /\ UNCHANGED << inputs, amb, environ, G, pc, i, exc, enter_log, exit_log,
                    denied, pre, exit_code, stack, call, runs >>

\* run: if not self.validate_inputs(): return 1
TplValidate ==
    /\ pc = "template"
    /\ tpl.pc = "validate"
    /\ LET v == validate_inputs(tpl.hooks)
       IN  tpl' = [ tpl EXCEPT
                      !.calls = @ \o v.calls,
                      !.pc = CASE v.result = "True" -> "execute"
                               [] v.result = "False" -> "returned"
                               [] OTHER -> "except",
                      !.ret = IF v.result = "False" THEN 1 ELSE @ ]
    /\ UNCHANGED << inputs, amb, environ, G, pc, i, exc, enter_log, exit_log,
                    denied, pre, exit_code, stack, call, runs >>

\* run: success = self.execute()
TplExecute ==
    /\ pc = "template"
    /\ tpl.pc = "execute"
    /\ tpl' = [ tpl EXCEPT
                  !.success = tpl.hooks.execute,
                  !.pc = IF tpl.hooks.execute = "raise" THEN "except"
                         ELSE "post_execute" ]
    /\ UNCHANGED << inputs, amb, environ, G, pc, i, exc, enter_log, exit_log,
                    denied, pre, exit_code, stack, call, runs >>

\* run: self.post_execute(success), then the return value from success
TplPostExecute ==
    /\ pc = "template"
    /\ tpl.pc = "post_execute"
    /\ LET raises == tpl.hooks.post_execute \in { "raise", "raise_once" }
       IN  tpl' = [ tpl EXCEPT
                      !.calls = Append(@, << "post_execute", tpl.success >>),
                      !.pc = IF raises THEN "except" ELSE "returned",
                      !.ret = IF raises THEN @
                              ELSE IF tpl.success = "True" THEN 0 ELSE 1 ]
    /\ UNCHANGED << inputs, amb, environ, G, pc, i, exc, enter_log, exit_log,
                    denied, pre, exit_code, stack, call, runs >>

\* run: the except clause calls post_execute(False) and returns 1; an
\* Exception raised by that call leaves run
TplExcept ==
    /\ pc = "template"
    /\ tpl.pc = "except"
    /\ LET earlier == \E k \in 1..Len(tpl.calls) :
                          tpl.calls[k][1] = "post_execute"
           raises == \/ tpl.hooks.post_execute = "raise"
                     \/ tpl.hooks.post_execute = "raise_once" /\ ~earlier
       IN  tpl' = [ tpl EXCEPT
                      !.calls = Append(@, << "post_execute", "False" >>),
                      !.pc = IF raises THEN "raised" ELSE "returned",
                      !.ret = IF raises THEN @ ELSE 1 ]
    /\ UNCHANGED << inputs, amb, environ, G, pc, i, exc, enter_log, exit_log,
                    denied, pre, exit_code, stack, call, runs >>

\* a script object just constructed, run() about to be called
InitTemplate ==
    /\ argv_kind = "path_profile"
    /\ script_path = P_app_s
    /\ profile = EmptyDict
    /\ script = S_noop
    /\ pc = "template"
    /\ G = << >>
    /\ amb = OriginalAmbient
    /\ environ = HostEnviron
    /\ i = 0
    /\ exc = NoExc
    /\ enter_log = << >>
    /\ exit_log = << >>
    /\ denied = { }
    /\ pre = [ amb |-> OriginalAmbient, environ |-> HostEnviron ]
    /\ exit_code = Unset
    /\ stack = << >>
    /\ call = NoCall
    /\ runs = << >>
    /\ tpl \in { [ pc |-> "pre_execute", calls |-> << >>, success |-> "none",
                    ret |-> Unset, hooks |-> h ] :
                  h \in [ pre_execute : { "True", "False", "raise" },
                          pre_validate : { "True", "False", "raise" },
                          inputs : { "ok", "raise" },
                          post_validate : { "ok", "raise" },
                          execute : { "True", "False", "raise" },
                          post_execute : { "ok", "raise", "raise_once" } ] }

NextTemplate ==
    \/ TplPreExecute
    \/ TplValidate
    \/ TplExecute
    \/ TplPostExecute
    \/ TplExcept

SpecTemplate == InitTemplate /\ [][NextTemplate]_vars

\* ------------------------------------------------------------------------
\* Claims
\* ------------------------------------------------------------------------
AllGuards == { "import", "filesystem", "network", "environment" }

\* the ambient state is what it was when the guards were constructed
AmbientRestored == amb = pre.amb /\ environ = pre.environ

\* C1 (as claimed, under SpecGuards): once all four guards have been entered
\* and all four have been exited, none of these calls raising, every
\* interception point and os.environ equal their values before activation.
C1_EnterExitRestores ==
    ( /\ pc = "client"
      /\ Guards(enter_log) = AllGuards
      /\ Guards(exit_log) = AllGuards
      /\ Failed(enter_log) = << >>
      /\ Failed(exit_log) = << >> )
    => AmbientRestored

\* C2 (as claimed): when run_sandboxed_script is over and activation had
\* begun, the guards have been deactivated in exactly the reverse of the
\* activation order (the reverse of the guards that were activated, or of the
\* whole list import, filesystem, network, environment).
C2_ReverseDeactivation ==
    (RunOver /\ enter_log # << >>)
    => /\ Failed(exit_log) = << >>
       /\ Names(exit_log) \in { Reverse(Names(Returned(enter_log))),
                                Reverse(GuardOrder) }

\* C3 (as claimed): when run_sandboxed_script ends with an exception, every
\* guard whose __enter__ was called has had __exit__ called exactly once and
\* no other guard has had __exit__ called.
C3_ExitExactlyOnce ==
    (RunOver /\ Raised(exc))
    => \A g \in AllGuards :
          Count(exit_log, g) = IF g \in Guards(enter_log) THEN 1 ELSE 0

\* C4 (as claimed): when the __enter__ of a guard raised, the ambient state
\* after run_sandboxed_script equals its value before the run.
C4_ActivationRollback ==
    (RunOver /\ Failed(enter_log) # << >>) => AmbientRestored

\* C5 (as claimed): a loadable script that only reads /data/x.txt, under a
\* profile whose read_paths holds /data, returns normally wherever the script
\* file is.
C5_ReadUnderDataCompletes ==
    ( /\ RunOver
      /\ script_path \in ExistingFiles \ (UnreadableFiles \cup NonCompiling)
      /\ script = S_read_data
      /\ G # << >>
      /\ InList(P_data, G[Len(G)].read_paths) )
    => ~ Raised(exc)

C7_ExitFailureContinues ==
    (RunOver /\ Failed(exit_log) # << >>)
    => /\ Guards(Returned(enter_log)) \subseteq Guards(exit_log)
       /\ Raised(exc)

\* C8: when the script path does not exist, no guard is ever constructed,
\* entered or exited, the ambient state never changes, run_sandboxed_script
\* raises SandboxException and main exits with status 1.
C8_MissingScriptFailsFirst ==
    (argv_kind \in { "path", "path_profile" } /\ script_path \notin ExistingFiles)
    => /\ G = << >>
       /\ enter_log = << >>
       /\ exit_log = << >>
       /\ amb = OriginalAmbient
       /\ environ = HostEnviron
       /\ pc \notin { "try", "except", "finally" }
       /\ (RunOver => exc.type = "SandboxException")
       /\ (pc = "exited" => exit_code = 1)

\* C8 witness: main has exited after a run on a missing script
C8_Witness ==
    /\ pc = "exited"
    /\ script_path = P_app_missing
    /\ exc.type = "SandboxException"
    /\ exit_code = 1

\* C9 (as claimed): a script that exists but cannot be read or compiled makes
\* run_sandboxed_script fail with no guard entered and none exited.
C9_UnloadableFailsBeforeActivation ==
    ( /\ RunOver
      /\ script_path \in ExistingFiles
      /\ script_path \in UnreadableFiles \cup NonCompiling )
    => /\ Raised(exc)
       /\ enter_log = << >>
       /\ exit_log = << >>

\* the condition C10 states for secure_import to permit a name
ClaimedImportAllowed(name, allowed_imports) ==
    /\ InList(name, allowed_imports) \/ InList(Split(name, ".")[1], allowed_imports)
    /\ ~ InList(name, dangerous_modules)

\* C10 (as claimed, under SpecGuards): secure_import permits a name if and
\* only if the name or its first dotted segment is in allowed_imports and the
\* name is not an entry of the dangerous-module list; any other name raises
\* SecurityError.
C10_ImportPermittedIff ==
    (call.kind = "import" /\ call.via # 0)
    => /\ ~ Raised(call.exc)
          <=> ClaimedImportAllowed(call.arg, G[call.via].allowed_imports)
       /\ Raised(call.exc) => call.exc.type = "SecurityError"

\* C11: whatever the allow list holds, also when it lists the module itself,
\* secure_import of one of the seven dangerous modules raises SecurityError
\* and the importer the hook captured is not called.
C11_DangerousAlwaysRefused ==
    ( call.kind = "import" /\ call.via # 0
      /\ call.arg \in { M_subprocess, M_os_system, M_shutil_rmtree, M_pty,
                        M_socket, M_smtplib, M_ftplib } )
        => /\ call.exc.type = "SecurityError"
           /\ call.chain = << call.via >>

\* a dangerous module the allow list names was asked for and refused
C11_Witness ==
    /\ call.kind = "import" /\ call.via # 0
    /\ call.arg = M_shutil_rmtree
    /\ InList(M_shutil_rmtree, G[1].allowed_imports)
    /\ call.exc.type = "SecurityError"

\* p is root or lies below it, component by component
IsUnder(p, root) ==
    \/ p = root
    \/ root = << "/" >> /\ StartsWith(p, root)
    \/ StartsWith(p, root \o << "/" >>)

\* p is root or below it, for some root of the list
Covered(p, roots) == \E k \in 1..Len(roots) : IsUnder(p, roots[k])

\* C12: is_path_allowed(path, write_mode) is true exactly when the absolute,
\* normalized path is an entry, or below an entry component by component, of
\* write_paths (write_mode true) or read_paths (write_mode false); a sibling
\* that only shares a string prefix with an entry is denied.
C12_PathAllowedIffDescendant ==
    call.kind = "is_path_allowed" =>
        ( call.result <=>
            Covered(AbsPath(call.arg),
                    IF call.write_mode THEN G[1].write_paths
                    ELSE G[1].read_paths) )

\* C13: while the filesystem guard is active, os.remove / os.unlink of a path
\* is let through exactly when allow_delete is true and the path passes the
\* write check against write_paths.
C13_DeleteIffAllowedAndWritable ==
    ( call.kind \in { "remove", "unlink" } /\ call.active ) =>
        ( call.exc.type # "SecurityError" <=>
            ( G[1].allow_delete /\ is_path_allowed(G[1], call.arg, TRUE) ) )

\* C14: a path covered only by write_paths is allowed with write_mode true
\* and denied with write_mode false; a path covered only by read_paths is
\* allowed with write_mode false and denied with write_mode true.
C14_ReadWriteIndependent ==
    call.kind = "is_path_allowed" =>
        LET p == AbsPath(call.arg)
            inW == Covered(p, G[1].write_paths)
            inR == Covered(p, G[1].read_paths)
        IN  /\ (inW /\ ~ inR) => (call.result <=> call.write_mode)
            /\ (inR /\ ~ inW) => (call.result <=> ~ call.write_mode)

\* C15: is_host_allowed(host) is true exactly when '*' is in allowed_hosts,
\* or host is in allowed_hosts, or allow_localhost is true and host is one of
\* localhost, 127.0.0.1, ::1.
C15_HostAllowedIff ==
    call.kind = "is_host_allowed" =>
        ( call.result <=>
            \/ InList("*", G[1].allowed_hosts)
            \/ InList(call.arg, G[1].allowed_hosts)
            \/ ( G[1].allow_localhost
                 /\ call.arg \in { "localhost", "127.0.0.1", "::1" } ) )

\* C16: while the network guard is active, socket.socket, urlopen and
\* HTTPConnection let a connection to host:port proceed only if
\* is_host_allowed(host) and is_port_allowed(port) both hold; with
\* allowed_ports empty none of them lets a connection proceed.
C16_ConnectionNeedsHostAndPort ==
    ( call.kind \in { "socket", "urlopen", "http" } /\ call.active
      /\ ~ Raised(call.exc) )
        => /\ is_host_allowed(G[1], call.host)
           /\ is_port_allowed(G[1], call.port)
           /\ G[1].allowed_ports # << >>

\* the keys environment.passthrough_vars of the profile document names
PassthroughVars ==
    LET e == Get(profile, "environment", EmptyDict)
        l == Get(e, "passthrough_vars", << >>)
    IN  { l[k] : k \in 1..Len(l) }

\* the environment guard has just been activated with allow_access false
EnvJustRestricted ==
    Active("environment") /\ call.kind = "none" /\ ~ G[1].allow_access

\* C17 as stated: activation with allow_access false leaves exactly the
\* prior mapping restricted to the fixed minimal set and the profile's
\* environment.passthrough_vars.
C17_RestrictedToFixedAndPassthrough ==
    EnvJustRestricted =>
        environ = { kv \in pre.environ :
                      kv[1] \in { "PATH", "PYTHONPATH", "LANG",
                                  "PYTEST_CURRENT_TEST", "PYTHONIOENCODING" }
                                    \cup PassthroughVars }

\* C17: activation with allow_access false leaves exactly the prior mapping
\* restricted to the fixed minimal set PATH, PYTHONPATH, LANG,
\* PYTEST_CURRENT_TEST, PYTHONIOENCODING, whatever passthrough_vars names.
C17_RestrictedToFixedSet ==
    EnvJustRestricted =>
        environ = { kv \in pre.environ :
                      kv[1] \in { "PATH", "PYTHONPATH", "LANG",
                                  "PYTEST_CURRENT_TEST", "PYTHONIOENCODING" } }

\* the guard was activated under a profile that passes HOME through, and
\* only PATH and LANG are left of a host environment that sets HOME
C17_Witness ==
    /\ EnvJustRestricted
    /\ "HOME" \in PassthroughVars
    /\ << "HOME", "/root" >> \in pre.environ
    /\ environ = { << "PATH", "/bin" >>, << "LANG", "C" >> }

\* C18: for both values of allow_access and whatever the client wrote to or
\* deleted from os.environ inside the with block, after __exit__ os.environ
\* has exactly the keys and values it had before __enter__.
C18_EnvironRestoredExactly ==
    "environment" \in Guards(exit_log) => environ = pre.environ

\* the profile document given on the command line (none: no key)
Supplied == IF argv_kind = "path_profile" THEN profile ELSE EmptyDict

\* the document names no such field in that section
Omitted(section, field) ==
    field \notin DOMAIN Get(Supplied, section, EmptyDict)

\* the guards hold the empty list or FALSE for every field of the
\* filesystem, network and environment sections the document omits
SectionDefaults ==
    LET g == G[1]
    IN  /\ Omitted("filesystem", "read_paths") => g.read_paths = << >>
        /\ Omitted("filesystem", "write_paths") => g.write_paths = << >>
        /\ Omitted("filesystem", "allow_delete") => g.allow_delete = FALSE
        /\ Omitted("network", "allowed_hosts") => g.allowed_hosts = << >>
        /\ Omitted("network", "allowed_ports") => g.allowed_ports = << >>
        /\ Omitted("network", "allow_localhost") => g.allow_localhost = FALSE
        /\ Omitted("environment", "allow_access") => g.allow_access = FALSE

\* C19 as stated: with no profile, or a profile that omits a field, the
\* guards are built with empty allowed imports, read paths, write paths,
\* hosts and ports, allow_delete false, allow_localhost false and
\* allow_access false for what is missing.
C19_DefaultsAllEmpty ==
    G # << >> =>
        /\ "allowed_imports" \notin DOMAIN Supplied
              => G[1].allowed_imports = << >>
        /\ SectionDefaults

\* C19: with no profile, or a profile that omits a field, the guards are
\* built with allowed_imports os.path, sys, typing, json, datetime, math when
\* that list is missing, and with empty read paths, write paths, hosts and
\* ports, allow_delete false, allow_localhost false and allow_access false
\* for the other fields that are missing.
C19_DefaultsWithImportList ==
    G # << >> =>
        /\ "allowed_imports" \notin DOMAIN Supplied
              => G[1].allowed_imports =
                    << M_os_path, M_sys, M_typing, M_json, M_datetime, M_math >>
        /\ SectionDefaults

\* guards built from a profile that names read_paths alone
C19_Witness ==
    /\ G # << >>
    /\ argv_kind = "path_profile"
    /\ profile = [ filesystem |-> [ read_paths |-> << P_data >> ] ]
    /\ G[1].allowed_imports # << >>
    /\ G[1].read_paths = << P_data >>
    /\ G[1].write_paths = << >>
    /\ ~ G[1].allow_delete /\ ~ G[1].allow_access

\* the client is inside the with blocks of all four guards
AllActive == \A g \in AllGuards : Active(g)

\* C20: under the profile with every list empty and every boolean false,
\* while the four guards are active every interception point holds a guard's
\* function and os.environ has no key outside PATH, PYTHONPATH, LANG,
\* PYTEST_CURRENT_TEST, PYTHONIOENCODING; and every import, open, Path.open,
\* os.remove, os.unlink, socket.socket, urlopen and HTTPConnection call that
\* goes through a guard's function ends in that function, with a
\* SecurityError or, for a call whose arguments the installed bound method
\* cannot take, a TypeError.
C20_DenyAllDeniesEverything ==
    /\ AllActive =>
          /\ \A p \in Points : amb[p] # 0
          /\ \A kv \in environ :
                kv[1] \in { "PATH", "PYTHONPATH", "LANG",
                            "PYTEST_CURRENT_TEST", "PYTHONIOENCODING" }
    /\ ( call.kind \in { "import", "open", "path_open", "remove", "unlink",
                          "socket", "urlopen", "http" }
         /\ call.via # 0 )
          => call.exc.type \in { "SecurityError", "TypeError" }

\* with all four guards active, a delete the client asked for was refused
C20_Witness ==
    /\ AllActive
    /\ call.kind = "remove" /\ call.via # 0 /\ call.active
    /\ call.exc.type = "SecurityError"
    /\ environ = { << "PATH", "/bin" >>, << "LANG", "C" >> }

\* main ends before any guard is constructed: no argument, a profile that is
\* not JSON, or a script that does not exist
SetupError ==
    \/ argv_kind \in { "none", "path_badjson" }
    \/ script_path \notin ExistingFiles

\* C21: the exit code of main is 0 exactly when the script completed, 1
\* exactly for a setup error, 2 exactly when a SecurityError ended the run,
\* and a code other than 0, 1 and 2 for any other fault.
C21_ExitCodeClassifies ==
    pc = "exited" =>
        /\ exit_code = 0 <=> (~ SetupError /\ exc.type = "none")
        /\ exit_code = 1 <=> SetupError
        /\ exit_code = 2 <=> (~ SetupError /\ exc.type = "SecurityError")

\* the call of thread k has begun to activate its guards and has not yet
\* left its finally loop
Activated(k) ==
    \/ runs[k].pc = "try" /\ runs[k].i > 1
    \/ runs[k].pc \in { "except", "finally" }

\* C22: at most one call of run_sandboxed_script is between the start of
\* guard activation and the end of guard deactivation at any time.
C22_OneRunAtATime ==
    pc = "threads" => ~ (Activated(1) /\ Activated(2))

\* C23: in a call of run_sandboxed_script that begins after another has
\* ended, what the import hook and the filesystem guard it installed decide
\* is what the call's own profile prescribes, as if the earlier call had
\* never been made.
C23_NoStateFromEarlierRun ==
    pc = "threads" =>
        \A k \in { 1, 2 } :
            LET r == runs[k]
            IN  ( r.seq /\ r.pc \in { "try", "except", "finally" } ) =>
                  /\ amb["import"] = r.n =>
                        \A name \in { M_json, M_os_path, M_socket } :
                            Raised(ImportStmt(W, name))
                              <=> SecureImportCheck(name, G[r.n].allowed_imports)
                                    # "pass"
                  /\ amb["open"] = r.n =>
                        \A f \in { P_app_s, P_data_x } :
                            OpenCall(W, f, Mode_r).type = "SecurityError"
                              <=> ~ is_path_allowed(G[r.n], f, FALSE)

\* C29: once both calls of run_sandboxed_script have ended, however their
\* steps were interleaved, builtins.__import__, builtins.open and
\* socket.socket are the functions the interpreter started with.
C29_OriginalsBackAfterBothRuns ==
    ( pc = "threads" /\ runs[1].pc = "unwound" /\ runs[2].pc = "unwound" )
        => /\ amb["import"] = 0
           /\ amb["open"] = 0
           /\ amb["socket"] = 0

\* C24: a SecurityError a guard raises for a denied open or a blocked
\* deletion names the path the caller asked for.
C24_SecurityErrorNamesResource ==
    ( call.kind \in { "open", "path_open", "remove", "unlink" }
      /\ call.exc.type = "SecurityError" )
        => call.exc.res = call.arg

\* C25: in a run, no __enter__ of a guard raises, and neither __enter__ nor
\* __exit__ of RestrictedNetwork is refused an import by the import hook
\* that is active around it.
C25_ActivationNeedsNothingDenied ==
    /\ Failed(enter_log) = << >>
    /\ \A k \in 1..Len(exit_log) : exit_log[k] # << "network", TRUE >>

\* C26: when an __exit__ raised while run_sandboxed_script was unwinding from
\* a SecurityError, the error main handles is still a SecurityError and the
\* process exits with status 2.
C26_OriginalFaultDecidesExit ==
    ( pc = "exited" /\ Failed(exit_log) # << >> /\ exc.ctx = "SecurityError" )
        => /\ exc.type = "SecurityError"
           /\ exit_code = 2

\* C27: while the filesystem guard is active, an open that grants read
\* access (mode r, or any mode with '+') is let through by secure_open only
\* if the path passes the read check, and one that grants write access only
\* if it passes the write check.
C27_ReadAccessNeedsReadCheck ==
    ( call.kind = "open" /\ call.via # 0
      /\ call.exc.type # "SecurityError" )
        => LET reads == \E k \in 1..Len(call.mode) : call.mode[k] \in { "r", "+" }
           IN  /\ reads => is_path_allowed(G[1], call.arg, FALSE)
               /\ IsWriteMode(call.mode) => is_path_allowed(G[1], call.arg, TRUE)

\* C28: while the import guard is active, the first import of a module that
\* is in allowed_imports and not dangerous succeeds whatever modules its own
\* body imports.
C28_AllowedFirstImportSucceeds ==
    ( /\ call.kind = "first_import"
      /\ call.via = 1
      /\ SecureImportCheck(call.arg, G[1].allowed_imports) = "pass" )
        => ~Raised(call.exc)

\* the calls of post_execute made so far by ScriptBase.run
PostExecuteCalls ==
    { k \in 1..Len(tpl.calls) : tpl.calls[k][1] = "post_execute" }

\* C30: when ScriptBase.run has ended (returned or raised) after pre_execute
\* returned True, post_execute has been called exactly once, and run has
\* returned 0 only if execute returned True.
C30_PostExecuteExactlyOnce ==
    ( pc = "template" /\ tpl.pc \in { "returned", "raised" } )
        => /\ tpl.hooks.pre_execute = "True"
                => Cardinality(PostExecuteCalls) = 1
           /\ tpl.ret = 0 => tpl.success = "True"

========================================================================
